---- MODULE Spec2Model ----
(***************************************************************************)
(* gen-exports: regenerate the "exports" map of a package manifest from    *)
(* the .js / .d.ts artifacts found under a build directory.                *)
(*                                                                         *)
(* Encoding of strings.  A path is a sequence of segments (the pieces      *)
(* between "/"); a segment is the sequence of its pieces between ".".      *)
(* So "bar/foo.d.ts" is << <<"bar">>, <<"foo","d","ts">> >> and the string *)
(* operations of the source (endsWith, slice, basename, join, relative)    *)
(* are computed on that encoding.  Two encoded paths are equal exactly     *)
(* when the strings are.                                                   *)
(***************************************************************************)
EXTENDS Integers, Sequences, FiniteSets, TLC

VARIABLES
    argv,        \* process.argv.slice(2): sequence of tokens
    artifacts,   \* file system: absolute paths of the .js / .d.ts files
    content,     \* file system: artifact -> set of marker strings its text includes
    unreadable,  \* file system: artifacts whose read fails (EACCES)
    manifests,   \* file system: path of a package.json -> its text
    pc,          \* position of main()
    opts,        \* result of parseCliArgs
    paths,       \* result of resolvePaths
    pkg,         \* the manifest object in memory
    files,       \* result of getDistFiles
    built,       \* result of buildExportsMap, with the reads and warnings it made
    exitCode,    \* process exit code, -1 while running
    steps,       \* the pipeline steps main() has completed, in order
    writes,      \* number of writeFileSync calls of this run
    run,         \* number of the current run
    atStart,     \* manifests as they were when the current run started
    prevExit     \* exit code of the previous run, -1 in the first run

vars == << argv, artifacts, content, unreadable, manifests, pc, opts, paths,
           pkg, files, built, exitCode, steps, writes, run, atStart, prevExit >>

fsVars == << artifacts, content, unreadable >>

----------------------------------------------------------------------------
(* Sequences and JavaScript values                                         *)

Undefined == <<>>          \* JavaScript undefined, for a value that is else a non-empty path

EmptyMap == [x \in {} |-> x]

Range(s) == {s[i] : i \in 1..Len(s)}

Last(s) == s[Len(s)]

Front(s) == SubSeq(s, 1, Len(s) - 1)

Perms(S) == {s \in [1..Cardinality(S) -> S] : \A i, j \in 1..Cardinality(S) : i # j => s[i] # s[j]}

CurDir == <<".">>          \* the segment "."
ParentDir == <<"..">>      \* the segment ".."
PackageJson == <<"package", "json">>

----------------------------------------------------------------------------
(* node's path module (posix)                                              *)

\* path.join(dir, rel) of an absolute directory and a relative path without ".."
Join(dir, rel) == dir \o rel

\* path.dirname of an absolute path; the root is its own parent
Dirname(p) == IF p = <<>> THEN <<>> ELSE Front(p)

\* path.basename(p): the last segment
Basename(p) == IF p = <<>> THEN <<"">> ELSE Last(p)

RECURSIVE Normalize(_, _)
\* path.resolve(base, rel): apply the segments of rel to base, ".." pops, "." stays
Normalize(base, rel) ==
    IF rel = <<>> THEN base
    ELSE IF rel[1] = ParentDir THEN Normalize(Dirname(base), Tail(rel))
    ELSE IF rel[1] = CurDir THEN Normalize(base, Tail(rel))
    ELSE Normalize(Append(base, rel[1]), Tail(rel))

RECURSIVE CommonLen(_, _)
CommonLen(a, b) ==
    IF a = <<>> \/ b = <<>> \/ a[1] # b[1] THEN 0
    ELSE 1 + CommonLen(Tail(a), Tail(b))

\* path.relative(from, to) of two absolute paths
Relative(from, to) ==
    LET k == CommonLen(from, to)
    IN [i \in 1..(Len(from) - k) |-> ParentDir] \o SubSeq(to, k + 1, Len(to))

\* The one name of the input universes with a "\" in it (a legal character of
\* a posix file name), and String.prototype.split("\\") on the names of the
\* universes: strings are atomic here, so the split is given name by name.
BackslashName == "di\\st"

BackslashSplit(piece) == IF piece = BackslashName THEN <<"di", "st">> ELSE <<piece>>

RECURSIVE ReplaceInSegment(_, _)
\* .replace(/\\/g, '/') on one segment: every "\" ends a segment and starts the
\* next one; acc is the segments made so far, the last of them still open
ReplaceInSegment(seg, acc) ==
    IF seg = <<>> THEN acc
    ELSE LET parts == BackslashSplit(seg[1])
             first == [acc EXCEPT ![Len(acc)] = Append(@, parts[1])]
             rest == [i \in 1..(Len(parts) - 1) |-> <<parts[i + 1]>>]
         IN ReplaceInSegment(Tail(seg), first \o rest)

RECURSIVE ReplaceBackslashes(_)
\* .replace(/\\/g, '/') on a path
ReplaceBackslashes(p) ==
    IF p = <<>> THEN <<>>
    ELSE ReplaceInSegment(p[1], << <<>> >>) \o ReplaceBackslashes(Tail(p))

\* makeRelativePath: path.relative, then every "\" replaced by "/"
makeRelativePath(pkgDir, absolutePath) == ReplaceBackslashes(Relative(pkgDir, absolutePath))

\* `./${rel}`
DotSlash(rel) == <<CurDir>> \o rel

----------------------------------------------------------------------------
(* JavaScript objects with ordered keys: sequences of [key, value]         *)

ObjKeys(obj) == [i \in 1..Len(obj) |-> obj[i].key]

ObjHas(obj, k) == \E i \in 1..Len(obj) : obj[i].key = k

ObjGet(obj, k) == obj[CHOOSE i \in 1..Len(obj) : obj[i].key = k].value

\* obj[k] = v: an existing key keeps its position, a new key goes last
ObjSet(obj, k, v) ==
    IF ObjHas(obj, k)
    THEN [i \in 1..Len(obj) |-> IF obj[i].key = k THEN [key |-> k, value |-> v] ELSE obj[i]]
    ELSE Append(obj, [key |-> k, value |-> v])

----------------------------------------------------------------------------
(* buildExportsMap, step 1: group the scanned files by base name           *)

EndsWithJs(file) == Len(Last(file)) >= 2 /\ Last(Last(file)) = "js"

EndsWithDts(file) ==
    LET n == Last(file)
    IN Len(n) >= 3 /\ n[Len(n)] = "ts" /\ n[Len(n) - 1] = "d"

\* file.slice(0, -3) or file.slice(0, -5)
SliceExt(file, parts) == Append(Front(file), SubSeq(Last(file), 1, Len(Last(file)) - parts))

\* The key "__proto__" of a plain object is the accessor of Object.prototype:
\* acc["__proto__"] reads the prototype and acc["__proto__"][ext] = file writes
\* the property on Object.prototype, which every object then inherits.
ProtoKey == << <<"__proto__">> >>

NoProps == [js |-> Undefined, dts |-> Undefined]

\* grouped: own keys in insertion order, their objects, and what was written
\* on Object.prototype (with the order the properties were created in)
EmptyGrouped == [own |-> <<>>, obj |-> EmptyMap, proto |-> NoProps, protoOrder |-> <<>>]

SetProp(o, ext, file) == [o EXCEPT ![ext] = file]

\* Mutant of GroupStep: acc[base] = {} in place of acc[base] = acc[base] || {},
\* so a second file of a group forgets the first
GroupStepOverwrite(acc, file) ==
    IF ~EndsWithJs(file) /\ ~EndsWithDts(file) THEN acc
    ELSE LET ext == IF EndsWithJs(file) THEN "js" ELSE "dts"
             base == IF EndsWithJs(file) THEN SliceExt(file, 1) ELSE SliceExt(file, 2)
         IN IF base = ProtoKey
            THEN [acc EXCEPT !.proto = SetProp(@, ext, file),
                             !.protoOrder = IF ext \in Range(@) THEN @ ELSE Append(@, ext)]
            ELSE IF base \in DOMAIN acc.obj
                 THEN [acc EXCEPT !.obj[base] = SetProp(NoProps, ext, file)]
                 ELSE [acc EXCEPT !.own = Append(@, base),
                                  !.obj = (base :> SetProp(NoProps, ext, file)) @@ @]

GroupStep(acc, file) ==
    IF ~EndsWithJs(file) /\ ~EndsWithDts(file) THEN acc
    ELSE LET ext == IF EndsWithJs(file) THEN "js" ELSE "dts"
             base == IF EndsWithJs(file) THEN SliceExt(file, 1) ELSE SliceExt(file, 2)
         IN IF base = ProtoKey
            THEN [acc EXCEPT !.proto = SetProp(@, ext, file),
                             !.protoOrder = IF ext \in Range(@) THEN @ ELSE Append(@, ext)]
            ELSE IF base \in DOMAIN acc.obj
                 THEN [acc EXCEPT !.obj[base] = SetProp(@, ext, file)]
                 ELSE [acc EXCEPT !.own = Append(@, base),
                                  !.obj = (base :> SetProp(NoProps, ext, file)) @@ @]

RECURSIVE GroupFiles(_, _)
\* files.reduce(..., {})
GroupFiles(fs, acc) ==
    IF fs = <<>> THEN acc ELSE GroupFiles(Tail(fs), GroupStep(acc, fs[1]))

\* for (const base in grouped): the own keys, then the enumerable properties
\* inherited from Object.prototype that no own key shadows.  (Own keys that
\* are array indices would come first in ascending order; no name of the
\* universe below is one.)
ForInKeys(g) ==
    g.own \o SelectSeq([i \in 1..Len(g.protoOrder) |-> << <<g.protoOrder[i]>> >>],
                       LAMBDA k : k \notin DOMAIN g.obj)

\* const { js, dts } = grouped[base] || {}: an own property, else the inherited one
GetProp(g, base, ext) ==
    IF base \in DOMAIN g.obj /\ g.obj[base][ext] # Undefined
    THEN g.obj[base][ext]
    ELSE g.proto[ext]

----------------------------------------------------------------------------
(* buildExportsMap, step 2: filter and synthesize                          *)

NewBuild == [threw |-> FALSE, exportsMap |-> <<>>, reads |-> <<>>, warnings |-> <<>>,
             trace |-> <<>>, hit |-> FALSE]

\* checkReserved: read the file, warn and answer true when it includes the placeholder
checkReserved(acc, fileToCheck, distDir, placeholder) ==
    LET absToCheck == Join(distDir, fileToCheck)
        r == [acc EXCEPT !.reads = Append(@, fileToCheck)]
    IN IF absToCheck \in unreadable \/ absToCheck \notin artifacts
       THEN [r EXCEPT !.threw = TRUE, !.hit = FALSE]
       ELSE IF placeholder \in content[absToCheck]
            THEN [r EXCEPT !.warnings = Append(@, fileToCheck), !.hit = TRUE]
            ELSE [r EXCEPT !.hit = FALSE]

\* The entry of one retained group
Entry(jsFile, dtsFile, distDir, pkgDir) ==
    LET imp == IF jsFile # Undefined
               THEN LET p == DotSlash(makeRelativePath(pkgDir, Join(distDir, jsFile)))
                    IN ("import" :> p) @@ ("require" :> p)
               ELSE EmptyMap
        typ == IF dtsFile # Undefined
               THEN ("types" :> DotSlash(makeRelativePath(pkgDir, Join(distDir, dtsFile))))
               ELSE EmptyMap
    IN imp @@ typ

\* Mutant of BuildStep: only the runtime file is checked for the placeholder
BuildStepJsOnly(acc, g, base, o) ==
    LET name == Basename(base)
        jsFile == GetProp(g, base, "js")
        dtsFile == GetProp(g, base, "dts")
        t == [acc EXCEPT !.trace = Append(@, "Filter")]
    IN IF name \in Range(o.excludeNames) THEN t
       ELSE LET a1 == IF jsFile # Undefined
                      THEN checkReserved(t, jsFile, o.distDir, o.placeholder)
                      ELSE [t EXCEPT !.hit = FALSE]
            IN IF a1.threw \/ a1.hit THEN a1
               ELSE [a1 EXCEPT
                       !.exportsMap = ObjSet(@, DotSlash(base),
                                             Entry(jsFile, dtsFile, o.distDir, o.pkgDir)),
                       !.trace = Append(@, "Synthesize")]

\* The body of the for-in loop for one key
BuildStep(acc, g, base, o) ==
    LET name == Basename(base)
        jsFile == GetProp(g, base, "js")
        dtsFile == GetProp(g, base, "dts")
        t == [acc EXCEPT !.trace = Append(@, "Filter")]
    IN IF name \in Range(o.excludeNames) THEN t
       ELSE LET a1 == IF jsFile # Undefined
                      THEN checkReserved(t, jsFile, o.distDir, o.placeholder)
                      ELSE [t EXCEPT !.hit = FALSE]
            IN IF a1.threw \/ a1.hit THEN a1
               ELSE LET a2 == IF dtsFile # Undefined
                              THEN checkReserved(a1, dtsFile, o.distDir, o.placeholder)
                              ELSE a1
                    IN IF a2.threw \/ a2.hit THEN a2
                       ELSE [a2 EXCEPT
                               !.exportsMap = ObjSet(@, DotSlash(base),
                                                     Entry(jsFile, dtsFile, o.distDir, o.pkgDir)),
                               !.trace = Append(@, "Synthesize")]

RECURSIVE BuildLoop(_, _, _, _)
BuildLoop(keys, g, o, acc) ==
    IF keys = <<>> \/ acc.threw THEN acc
    ELSE BuildLoop(Tail(keys), g, o, BuildStep(acc, g, keys[1], o))

\* buildExportsMap(files, { distDir, pkgDir, excludeNames, placeholder })
buildExportsMap(fs, o) ==
    LET grouped == GroupFiles(fs, EmptyGrouped)
    IN BuildLoop(ForInKeys(grouped), grouped, o, [NewBuild EXCEPT !.trace = <<"Group">>])

----------------------------------------------------------------------------
(* Command line                                                            *)

\* A token of argv is a string.  The model carries the string (text) with the
\* three readings the source makes of it: split on "," (names, each item with
\* the whitespace around it noted), as a path (path) and as a marker (marker).
Item(n) == [ws |-> FALSE, name |-> n]
Padded(n) == [ws |-> TRUE, name |-> n]

Word(s) == [text |-> s, names |-> << Item(<<s>>) >>, path |-> << <<s>> >>, marker |-> s]
EmptyTok == [text |-> "", names |-> << Item(<<"">>) >>, path |-> <<>>, marker |-> ""]
ListTok(s, items) == [text |-> s, names |-> items, path |-> << <<s>> >>, marker |-> s]
PathTok(s, segs) == [text |-> s, names |-> << Item(<<s>>) >>, path |-> segs, marker |-> s]

Truthy(tok) == tok.text # ""

\* s.trim(): the item without the whitespace around it
Trim(item) == item.name

\* argv[++i].split(',').map(s => s.trim()).filter(Boolean)
SplitNames(tok) ==
    SelectSeq([i \in 1..Len(tok.names) |-> Trim(tok.names[i])], LAMBDA n : n # <<"">>)

DefaultPlaceholder == "$RESERVED$"

RECURSIVE ParseLoop(_, _, _)
ParseLoop(av, i, o) ==
    IF i > Len(av) THEN o
    ELSE LET arg == av[i].text
             hasNext == i + 1 <= Len(av) /\ Truthy(av[i + 1])
         IN IF arg \in {"-i", "--exclude"} /\ hasNext
            THEN ParseLoop(av, i + 2, [o EXCEPT !.excludeNames = SplitNames(av[i + 1])])
            ELSE IF arg \in {"-p", "--pkg"} /\ hasNext
            THEN ParseLoop(av, i + 2, [o EXCEPT !.pkgPathArg = av[i + 1].path])
            ELSE IF arg \in {"-e", "--exclude-placeholder"} /\ hasNext
            THEN ParseLoop(av, i + 2, [o EXCEPT !.placeholder = av[i + 1].marker])
            ELSE [o EXCEPT !.usage = TRUE]

NoOpts == [usage |-> TRUE, buildDirArg |-> <<>>, excludeNames |-> <<>>,
           pkgPathArg |-> Undefined, placeholder |-> DefaultPlaceholder]

\* parseCliArgs(argv); usage = TRUE when it called printUsage (process.exit(1))
parseCliArgs(av) ==
    IF Len(av) < 1 THEN NoOpts
    ELSE ParseLoop(av, 2, [NoOpts EXCEPT !.usage = FALSE, !.buildDirArg = av[1].path])

----------------------------------------------------------------------------
(* File system and manifest location                                       *)

Cwd == << <<"w">> >>                    \* process.cwd()
PkgHome == Cwd \o << <<"pkg">> >>
DistIn == PkgHome \o << <<"dist">> >>
Outside == << <<"o">> >>
DistOut == Outside \o << <<"dist">> >>
DistBack == PkgHome \o << <<BackslashName>> >>

\* the directories that exist (those of the artifacts exist with them)
Directories ==
    {<<>>, Cwd, PkgHome, DistIn, Outside, DistOut}
        \cup UNION {{SubSeq(f, 1, n) : n \in 0..(Len(f) - 1)} : f \in artifacts}

IsDirectory(p) == p \in Directories

existsSync(p) == p \in Directories \/ p \in DOMAIN manifests \/ p \in artifacts

RECURSIVE findNearestAnywhere(_, _)
\* Mutant of findNearestPackageJson: the walk does not stop at rootDir
findNearestAnywhere(dir, rootDir) ==
    LET candidate == Join(dir, <<PackageJson>>)
    IN IF existsSync(candidate) THEN candidate
       ELSE IF Dirname(dir) = dir THEN Undefined
       ELSE findNearestAnywhere(Dirname(dir), rootDir)

RECURSIVE findNearestBelowRoot(_, _)
\* Mutant of findNearestPackageJson: the loop leaves at rootDir before it has
\* tested the candidate there
findNearestBelowRoot(dir, rootDir) ==
    LET candidate == Join(dir, <<PackageJson>>)
    IN IF dir = rootDir \/ Dirname(dir) = dir THEN Undefined
       ELSE IF existsSync(candidate) THEN candidate
       ELSE findNearestBelowRoot(Dirname(dir), rootDir)

RECURSIVE findNearestVisits(_, _)
\* The values dir takes in the loop of findNearestPackageJson, one for each
\* iteration, in order
findNearestVisits(dir, rootDir) ==
    LET candidate == Join(dir, <<PackageJson>>)
    IN IF existsSync(candidate) THEN <<dir>>
       ELSE IF dir = rootDir \/ Dirname(dir) = dir THEN <<dir>>
       ELSE <<dir>> \o findNearestVisits(Dirname(dir), rootDir)

RECURSIVE findNearestPackageJson(_, _)
\* findNearestPackageJson(startDir, rootDir): Undefined for null
findNearestPackageJson(dir, rootDir) ==
    LET candidate == Join(dir, <<PackageJson>>)
    IN IF existsSync(candidate) THEN candidate
       ELSE IF dir = rootDir \/ Dirname(dir) = dir THEN Undefined
       ELSE findNearestPackageJson(Dirname(dir), rootDir)

NoPaths == [fatal |-> TRUE, pkgPath |-> <<>>, pkgDir |-> <<>>, distDir |-> <<>>]

\* resolvePaths(buildDirArg, pkgPathArg); fatal = TRUE when it called process.exit(1)
resolvePaths(buildDirArg, pkgPathArg) ==
    LET buildPath == Normalize(Cwd, buildDirArg)
        rootPkgPath == Join(Cwd, <<PackageJson>>)
        found == findNearestPackageJson(buildPath, Cwd)
        pkgPath == IF pkgPathArg # Undefined THEN Normalize(Cwd, pkgPathArg)
                   ELSE IF found # Undefined THEN found ELSE rootPkgPath
    IN IF ~existsSync(buildPath) \/ ~IsDirectory(buildPath) THEN NoPaths
       ELSE IF ~existsSync(pkgPath) THEN NoPaths
       ELSE [fatal |-> FALSE, pkgPath |-> pkgPath, pkgDir |-> Dirname(pkgPath),
             distDir |-> buildPath]

----------------------------------------------------------------------------
(* Manifest text and JSON                                                  *)

\* A JSON value of the manifest: a string, or an exports map
Str(s) == [str |-> s, map |-> <<>>]
MapVal(m) == [str |-> "", map |-> m]

\* The text of a manifest file: whether it parses, whether it is laid out as
\* JSON.stringify(obj, null, 2) + "\n" lays it out, and its members in order
Text(ok, canonical, members) == [ok |-> ok, canonical |-> canonical, members |-> members]

NoPkg == <<>>

\* JSON.parse of a text that parses: the members in order, layout forgotten
JsonParse(text) == text.members

\* JSON.stringify(obj, null, 2) + '\n'
JsonStringify(obj) == Text(TRUE, TRUE, obj)

----------------------------------------------------------------------------
(* Directory scan                                                          *)

IsUnder(f, dir) == Len(f) > Len(dir) /\ SubSeq(f, 1, Len(dir)) = dir

\* what fg(['**/*.js', '**/*.d.ts'], { cwd: distDir }) can match: the artifacts
\* below distDir, as paths relative to it
Matched(distDir) ==
    {SubSeq(f, Len(distDir) + 1, Len(f)) :
        f \in {g \in artifacts : IsUnder(g, distDir) /\ (EndsWithJs(g) \/ EndsWithDts(g))}}

----------------------------------------------------------------------------
(* Bounds and input universes                                              *)

MaxFiles == 3      \* artifacts in the build directory (build specification)
MaxRuns == 2       \* successive runs of the program

FooJs == << <<"foo", "js">> >>
FooDts == << <<"foo", "d", "ts">> >>
BarFooJs == << <<"bar">>, <<"foo", "js">> >>
BarOtherJs == << <<"bar">>, <<"other", "js">> >>
BarOtherDts == << <<"bar">>, <<"other", "d", "ts">> >>
ProtoJs == << <<"__proto__", "js">> >>

\* files of the build directory, relative to it
BuildFiles == {FooJs, FooDts, BarFooJs, BarOtherJs, BarOtherDts, ProtoJs}
RunFiles == {FooJs, FooDts, BarOtherJs}

Markers == {DefaultPlaceholder, "TODO"}

TDist == PathTok("pkg/dist", << <<"pkg">>, <<"dist">> >>)
TOut == PathTok("../o/dist", << ParentDir, <<"o">>, <<"dist">> >>)
THere == PathTok(".", << CurDir >>)
TUp == PathTok("..", << ParentDir >>)
TBack == PathTok("pkg/di\\st", << <<"pkg">>, <<BackslashName>> >>)
TNoDir == PathTok("nodir", << <<"nodir">> >>)
TFoo == Word("foo")
TFooOther == ListTok("foo, other,", << Item(<<"foo">>), Padded(<<"other">>), Item(<<"">>) >>)
TPkgFile == PathTok("pkg/package.json", << <<"pkg">>, PackageJson >>)
TOutFile == PathTok("../o/package.json", << ParentDir, <<"o">>, PackageJson >>)
TTodo == Word("TODO")
TProto == Word("__proto__")

BuildArgvs ==
    { <<TDist>>, <<TDist, Word("-i"), TFoo>>, <<TDist, Word("--exclude"), TFooOther>>,
      <<TDist, Word("-i"), TProto>> }

RunArgvs ==
    { <<>>, <<TDist>>, <<TNoDir>>, <<TDist, Word("-x")>>, <<TDist, Word("-i")>>,
      <<TDist, Word("-i"), EmptyTok>>, <<TDist, Word("-i"), TFooOther>>,
      <<TDist, Word("-e"), TTodo>>, <<TDist, Word("--exclude-placeholder"), TTodo, Word("--exclude"), TFoo>>,
      <<TDist, Word("-p"), TPkgFile>>, <<TDist, Word("--pkg"), TOutFile>> }

Member(k, v) == [key |-> k, value |-> v]

StaleExports ==
    << Member(DotSlash(<< <<"gone">> >>),
              ("import" :> DotSlash(<< <<"dist">>, <<"gone", "js">> >>))
                  @@ ("require" :> DotSlash(<< <<"dist">>, <<"gone", "js">> >>))) >>

DocPlain == Text(TRUE, FALSE, << Member("name", Str("pkg-a")), Member("version", Str("1.0.0")) >>)
DocStale == Text(TRUE, TRUE, << Member("name", Str("pkg-a")), Member("exports", MapVal(StaleExports)),
                                Member("version", Str("1.0.0")) >>)
DocBroken == Text(FALSE, FALSE, <<>>)

PkgHomeJson == Join(PkgHome, <<PackageJson>>)
CwdJson == Join(Cwd, <<PackageJson>>)
OutsideJson == Join(Outside, <<PackageJson>>)
RootJson == <<PackageJson>>
DistInJson == Join(DistIn, <<PackageJson>>)
DistOutJson == Join(DistOut, <<PackageJson>>)

Rooted(dir, S) == {Join(dir, f) : f \in S}

BuildManifests == { PkgHomeJson :> DocPlain }

RunManifests ==
    { EmptyMap, PkgHomeJson :> DocPlain, PkgHomeJson :> DocStale, PkgHomeJson :> DocBroken,
      CwdJson :> DocStale, (PkgHomeJson :> DocPlain) @@ (OutsideJson :> DocStale) }

----------------------------------------------------------------------------
(* The program                                                             *)

InitWith(argvs, fileSets, contents, unreadMax, manifestSets) ==
    /\ argv \in argvs
    /\ artifacts \in fileSets
    /\ content \in [artifacts -> contents]
    /\ unreadable \in {u \in SUBSET artifacts : Cardinality(u) <= unreadMax}
    /\ manifests \in manifestSets
    /\ pc = "start"
    /\ opts = NoOpts
    /\ paths = NoPaths
    /\ pkg = NoPkg
    /\ files = <<>>
    /\ built = NewBuild
    /\ exitCode = -1
    /\ steps = <<>>
    /\ writes = 0
    /\ run = 1
    /\ atStart = manifests
    /\ prevExit = -1

\* A run of the whole program: any command line, a small build directory
Init ==
    InitWith(RunArgvs, {Rooted(DistIn, S) : S \in SUBSET RunFiles},
             {{}, {DefaultPlaceholder}, {"TODO"}}, 1, RunManifests)

\* The build step on any build directory of at most MaxFiles artifacts
InitBuild ==
    InitWith(BuildArgvs,
             {Rooted(DistIn, S) : S \in {T \in SUBSET BuildFiles : Cardinality(T) <= MaxFiles}},
             {{}, {DefaultPlaceholder}}, 0, BuildManifests)

Fatal ==
    /\ pc' = "fatal"
    /\ exitCode' = 1

\* main(): parseCliArgs(process.argv.slice(2))
ParseCliArgs ==
    /\ pc = "start"
    /\ LET o == parseCliArgs(argv)
       IN /\ opts' = o
          /\ IF o.usage THEN Fatal ELSE pc' = "resolve" /\ exitCode' = exitCode
    /\ UNCHANGED << argv, fsVars, manifests, paths, pkg, files, built, steps, writes,
                    run, atStart, prevExit >>

\* main(): resolvePaths(buildDirArg, pkgPathArg)
ResolvePaths ==
    /\ pc = "resolve"
    /\ LET r == resolvePaths(opts.buildDirArg, opts.pkgPathArg)
       IN /\ paths' = r
          /\ IF r.fatal THEN Fatal ELSE pc' = "read" /\ exitCode' = exitCode
    /\ UNCHANGED << argv, fsVars, manifests, opts, pkg, files, built, steps, writes,
                    run, atStart, prevExit >>

\* main(): readJson(pkgPath); a throw goes to main().catch
ReadJson ==
    /\ pc = "read"
    /\ IF paths.pkgPath \in DOMAIN manifests /\ manifests[paths.pkgPath].ok
       THEN /\ pkg' = JsonParse(manifests[paths.pkgPath])
            /\ pc' = "scan"
            /\ exitCode' = exitCode
       ELSE /\ pkg' = pkg
            /\ Fatal
    /\ UNCHANGED << argv, fsVars, manifests, opts, paths, files, built, steps, writes,
                    run, atStart, prevExit >>

\* main(): await getDistFiles(distDir); the scan gives its matches in an order
\* it does not promise, or rejects
GetDistFiles ==
    /\ pc = "scan"
    /\ \E ok \in BOOLEAN :
         IF ok
         THEN /\ files' \in Perms(Matched(paths.distDir))
              /\ steps' = Append(steps, "Collect")
              /\ pc' = "build"
              /\ exitCode' = exitCode
         ELSE /\ files' = files
              /\ steps' = steps
              /\ Fatal
    /\ UNCHANGED << argv, fsVars, manifests, opts, paths, pkg, built, writes,
                    run, atStart, prevExit >>

RECURSIVE ObjSetAll(_, _)
\* Object.assign(obj, more)
ObjSetAll(obj, more) ==
    IF more = <<>> THEN obj
    ELSE ObjSetAll(ObjSet(obj, more[1].key, more[1].value), Tail(more))

\* Mutant of MergeExports: the new entries are merged into the previous map
MergeExportsDeep(p, m) ==
    IF ObjHas(p, "exports")
    THEN ObjSet(p, "exports", MapVal(ObjSetAll(ObjGet(p, "exports").map, m)))
    ELSE ObjSet(p, "exports", MapVal(m))

\* pkg.exports = <the new map>
MergeExports(p, m) == ObjSet(p, "exports", MapVal(m))

BuildOpts == [distDir |-> paths.distDir, pkgDir |-> paths.pkgDir,
              excludeNames |-> opts.excludeNames, placeholder |-> opts.placeholder]

\* Mutant of BuildExportsMap: the manifest is saved from inside the build, so a
\* read that fails leaves the entries made so far on disk
BuildExportsMapSaving ==
    /\ pc = "build"
    /\ LET b == buildExportsMap(files, BuildOpts)
       IN /\ built' = b
          /\ manifests' = [manifests EXCEPT ![paths.pkgPath] =
                              JsonStringify(MergeExports(pkg, b.exportsMap))]
          /\ IF b.threw
             THEN /\ steps' = steps \o b.trace
                  /\ pkg' = pkg
                  /\ Fatal
             ELSE /\ steps' = steps \o b.trace \o <<"Merge">>
                  /\ pkg' = MergeExports(pkg, b.exportsMap)
                  /\ pc' = "write"
                  /\ exitCode' = exitCode
    /\ UNCHANGED << argv, fsVars, opts, paths, files, writes, run, atStart, prevExit >>

\* main(): pkg.exports = buildExportsMap(files, {...})
BuildExportsMap ==
    /\ pc = "build"
    /\ LET b == buildExportsMap(files, BuildOpts)
       IN /\ built' = b
          /\ IF b.threw
             THEN /\ steps' = steps \o b.trace
                  /\ pkg' = pkg
                  /\ Fatal
             ELSE /\ steps' = steps \o b.trace \o <<"Merge">>
                  /\ pkg' = MergeExports(pkg, b.exportsMap)
                  /\ pc' = "write"
                  /\ exitCode' = exitCode
    /\ UNCHANGED << argv, fsVars, manifests, opts, paths, files, writes,
                    run, atStart, prevExit >>

\* Mutant of WriteJson: a failed write is swallowed and success is reported
WriteJsonSwallow ==
    /\ pc = "write"
    /\ \E ok \in BOOLEAN :
         IF ok
         THEN /\ manifests' = [manifests EXCEPT ![paths.pkgPath] = JsonStringify(pkg)]
              /\ writes' = writes + 1
              /\ steps' = Append(steps, "Persist")
         ELSE /\ manifests' = manifests
              /\ writes' = writes
              /\ steps' = steps
    /\ pc' = "done"
    /\ exitCode' = 0
    /\ UNCHANGED << argv, fsVars, opts, paths, pkg, files, built, run, atStart, prevExit >>

\* main(): writeJson(pkgPath, pkg), console.log, return; the write can throw
WriteJson ==
    /\ pc = "write"
    /\ \E ok \in BOOLEAN :
         IF ok
         THEN /\ manifests' = [manifests EXCEPT ![paths.pkgPath] = JsonStringify(pkg)]
              /\ writes' = writes + 1
              /\ steps' = Append(steps, "Persist")
              /\ pc' = "done"
              /\ exitCode' = 0
         ELSE /\ manifests' = manifests
              /\ writes' = writes
              /\ steps' = steps
              /\ Fatal
    /\ UNCHANGED << argv, fsVars, opts, paths, pkg, files, built, run, atStart, prevExit >>

\* The program is started again with the same arguments
Rerun ==
    /\ pc \in {"done", "fatal"}
    /\ run < MaxRuns
    /\ run' = run + 1
    /\ atStart' = manifests
    /\ prevExit' = exitCode
    /\ pc' = "start"
    /\ opts' = NoOpts
    /\ paths' = NoPaths
    /\ pkg' = NoPkg
    /\ files' = <<>>
    /\ built' = NewBuild
    /\ exitCode' = -1
    /\ steps' = <<>>
    /\ writes' = 0
    /\ UNCHANGED << argv, fsVars, manifests >>

Next ==
    \/ ParseCliArgs
    \/ ResolvePaths
    \/ ReadJson
    \/ GetDistFiles
    \/ BuildExportsMap
    \/ WriteJson
    \/ Rerun

NextBuild ==
    \/ ParseCliArgs
    \/ ResolvePaths
    \/ ReadJson
    \/ GetDistFiles
    \/ BuildExportsMap
    \/ WriteJson

\* Manifest location: any placement of manifests around the build directory
LocateArgvs ==
    { <<TDist>>, <<TOut>>, <<TBack>>, <<THere>>, <<TUp>>, <<TNoDir>>,
      <<TDist, Word("-p"), TPkgFile>>, <<TDist, Word("--pkg"), TOutFile>>,
      <<TOut, Word("-p"), TPkgFile>> }

LocateManifests ==
    UNION {[S -> {DocPlain}] :
             S \in SUBSET {RootJson, CwdJson, PkgHomeJson, DistInJson, OutsideJson, DistOutJson}}

InitLocate ==
    InitWith(LocateArgvs,
             {Rooted(DistIn, {FooJs}) \cup Rooted(DistOut, {FooJs, FooDts})
                  \cup Rooted(DistBack, {FooJs})},
             {{}}, 0, LocateManifests)

Spec == Init /\ [][Next]_vars

SpecLocate == InitLocate /\ [][NextBuild]_vars

SpecBuild == InitBuild /\ [][NextBuild]_vars

----------------------------------------------------------------------------
(* What the claims speak of, stated on the file system and the options     *)

\* The export map has been computed (and merged into the manifest object)
Built == pc \in {"write", "done"}

\* The module path of an artifact: its path relative to the build directory
\* with ".js" or ".d.ts" stripped
ModulePath(f) == IF EndsWithJs(f) THEN SliceExt(f, 1) ELSE SliceExt(f, 2)

Scanned == Matched(paths.distDir)

ScannedPaths == {ModulePath(f) : f \in Scanned}

GroupOf(b) == {f \in Scanned : ModulePath(f) = b}

HasJs(b) == \E f \in GroupOf(b) : EndsWithJs(f)

HasDts(b) == \E f \in GroupOf(b) : EndsWithDts(f)

HasMarker(f) == opts.placeholder \in content[Join(paths.distDir, f)]

ExcludedByName(b) == Basename(b) \in Range(opts.excludeNames)

ExcludedByMarker(b) == \E f \in GroupOf(b) : HasMarker(f)

RetainedPaths == {b \in ScannedPaths : ~ExcludedByName(b) /\ ~ExcludedByMarker(b)}

ExportKeys == Range(ObjKeys(built.exportsMap))

Descriptor(b) == ObjGet(built.exportsMap, DotSlash(b))

NoProtoArtifact == ProtoKey \notin ScannedPaths

\* C1: the key set of the export map is { "./" + modulePath } over exactly the
\* module paths whose group is excluded neither by name nor by content marker.
C1_KeySetIsRetained ==
    Built => ExportKeys = {DotSlash(b) : b \in RetainedPaths}

\* C1 holds of every build directory that has no artifact with module path
\* "__proto__" (the input on which the code departs from it).
C1_KeySetExceptProto ==
    (Built /\ NoProtoArtifact) => ExportKeys = {DotSlash(b) : b \in RetainedPaths}

\* C2: a retained group with a .js and a .d.ts has import, require and types;
\* a retained group with only a .d.ts is in the map with types and neither
\* import nor require; wherever import is present, require is and equals it.
C2_DescriptorFields ==
    Built =>
      /\ \A b \in RetainedPaths :
           /\ ObjHas(built.exportsMap, DotSlash(b))
           /\ (HasJs(b) /\ HasDts(b)) =>
                 DOMAIN Descriptor(b) = {"import", "require", "types"}
           /\ (~HasJs(b) /\ HasDts(b)) => DOMAIN Descriptor(b) = {"types"}
      /\ \A i \in 1..Len(built.exportsMap) :
           LET d == built.exportsMap[i].value
           IN "import" \in DOMAIN d => ("require" \in DOMAIN d /\ d["require"] = d["import"])

\* C3: with no content marker in any file, a group is absent from the export
\* map if and only if its basename is in the exclusion list.
C3_NameExclusionExact ==
    (Built /\ \A f \in Scanned : ~HasMarker(f)) =>
        \A b \in ScannedPaths : (DotSlash(b) \notin ExportKeys) <=> ExcludedByName(b)

\* C2 and C3 hold of every build directory that has no artifact with module
\* path "__proto__".
C2_DescriptorFieldsExceptProto == NoProtoArtifact => C2_DescriptorFields

C3_NameExclusionExceptProto == NoProtoArtifact => C3_NameExclusionExact

\* The scenario of C3 is reached: "foo" excluded, foo.js and bar/foo.js
\* dropped, bar/other.js kept.
C3_ScenarioReached ==
    /\ Built
    /\ Scanned = {FooJs, BarFooJs, BarOtherJs}
    /\ Range(opts.excludeNames) = {<<"foo">>}
    /\ ExportKeys = {DotSlash(<< <<"bar">>, <<"other">> >>)}

AsMapping(m) == {m[i] : i \in 1..Len(m)}

----------------------------------------------------------------------------
(* The manifest before and after a run                                     *)

Before == JsonParse(atStart[paths.pkgPath])

After == JsonParse(manifests[paths.pkgPath])

KeysOf(obj) == Range(ObjKeys(obj))

\* C5: after a successful run every manifest field other than exports has the
\* value it had before the run, no field is added but exports, and exports is
\* exactly the newly generated map: a previous entry that this run does not
\* regenerate is gone.
C5_OnlyExportsReplaced ==
    pc = "done" =>
      /\ manifests[paths.pkgPath].ok
      /\ \A k \in KeysOf(Before) \ {"exports"} : ObjHas(After, k) /\ ObjGet(After, k) = ObjGet(Before, k)
      /\ KeysOf(After) = KeysOf(Before) \cup {"exports"}
      /\ ObjGet(After, "exports") = MapVal(built.exportsMap)
      /\ ObjHas(Before, "exports") =>
            \A k \in KeysOf(ObjGet(Before, "exports").map) :
                k \notin ExportKeys => k \notin KeysOf(ObjGet(After, "exports").map)
      /\ \A q \in DOMAIN manifests \ {paths.pkgPath} : manifests[q] = atStart[q]

\* C5 witness: a successful run on a manifest whose exports held an entry that
\* is not regenerated, with other fields around it, and a non-empty new map.
C5_Witness ==
    /\ pc = "done"
    /\ ObjHas(Before, "exports")
    /\ ObjHas(Before, "version")
    /\ \E k \in KeysOf(ObjGet(Before, "exports").map) : k \notin ExportKeys
    /\ ExportKeys # {}

\* C6: a second run with the same arguments on an unchanged build directory
\* writes a manifest identical (key order of exports included) to the one the
\* first run wrote.
C6_SecondRunIdentical ==
    (pc = "done" /\ run > 1 /\ prevExit = 0) =>
        manifests[paths.pkgPath] = atStart[paths.pkgPath]

\* What does hold of the second run: the same manifest up to the key order of
\* exports (the order follows the order the scan listed the files in).
C6_SecondRunSameUpToKeyOrder ==
    (pc = "done" /\ run > 1 /\ prevExit = 0) =>
        /\ ObjKeys(After) = ObjKeys(Before)
        /\ \A k \in KeysOf(After) \ {"exports"} : ObjGet(After, k) = ObjGet(Before, k)
        /\ AsMapping(ObjGet(After, "exports").map) = AsMapping(ObjGet(Before, "exports").map)
        /\ manifests[paths.pkgPath].canonical = atStart[paths.pkgPath].canonical

\* C7: the manifest is written at most once per run and only once the whole
\* export map is computed; a run that has not completed, or that failed at
\* any step before the write, leaves every manifest as it was.
C7_WrittenOnceAtEnd ==
    /\ writes <= 1
    /\ pc # "done" => (writes = 0 /\ manifests = atStart)
    /\ writes = 1 =>
         /\ pc = "done"
         /\ ~built.threw
         /\ built = buildExportsMap(files, BuildOpts)
         /\ ObjGet(After, "exports") = MapVal(built.exportsMap)

\* C7 witness: a run that failed on a file read in the middle of the build,
\* after an entry had been synthesized, and left the manifest as it was.
C7_Witness ==
    /\ pc = "fatal"
    /\ built.threw
    /\ Len(built.exportsMap) >= 1
    /\ manifests = atStart

KnownFlags == {"-i", "--exclude", "-p", "--pkg", "-e", "--exclude-placeholder"}

MissingArguments == Len(argv) < 1

\* a token in flag position that is no known flag, or a flag without a value
BadFlag ==
    \E i \in 2..Len(argv) :
        /\ i % 2 = 0
        /\ \/ argv[i].text \notin KnownFlags
           \/ i = Len(argv)
           \/ ~Truthy(argv[i + 1])

BadBuildDir == Len(argv) >= 1 /\ ~IsDirectory(Normalize(Cwd, argv[1].path))

OverrideMissing ==
    \E i \in 2..(Len(argv) - 1) :
        /\ i % 2 = 0
        /\ argv[i].text \in {"-p", "--pkg"}
        /\ ~existsSync(Normalize(Cwd, argv[i + 1].path))

NoManifestAnywhere == DOMAIN manifests = {}

\* Collect, Group, then Filter (and Synthesize, for a retained group) per
\* group, then Merge, Persist
PipelineOrder(st) ==
    /\ Len(st) >= 4
    /\ st[1] = "Collect"
    /\ st[2] = "Group"
    /\ st[Len(st) - 1] = "Merge"
    /\ st[Len(st)] = "Persist"
    /\ \A i \in 3..(Len(st) - 2) :
         /\ st[i] \in {"Filter", "Synthesize"}
         /\ st[i] = "Synthesize" => st[i - 1] = "Filter"

\* C8: a run ends either in FatalError with exit code 1 or in Done with exit
\* code 0; it is FatalError on missing arguments, an unrecognized flag, a
\* missing build directory, an unresolvable manifest path or a thrown failure;
\* Done is reached only after Collect, Group, Filter, Synthesize, Merge,
\* Persist in that order, with the manifest persisted; a run that has not
\* ended is at one of the steps of main() and is not stuck there (the step
\* from "build" is one evaluation of buildExportsMap, a loop over the files).
C8_TwoOutcomes ==
    /\ (pc = "fatal") <=> (exitCode = 1)
    /\ (pc = "done") <=> (exitCode = 0)
    /\ pc \notin {"done", "fatal"} => exitCode = -1
    /\ pc = "start" => ENABLED ParseCliArgs
    /\ pc = "resolve" => ENABLED ResolvePaths
    /\ pc = "read" => ENABLED ReadJson
    /\ pc = "scan" => ENABLED GetDistFiles
    /\ pc = "write" => ENABLED WriteJson
    /\ pc \in {"start", "resolve", "read", "scan", "build", "write", "done", "fatal"}
    /\ pc = "done" =>
         /\ writes = 1
         /\ PipelineOrder(steps)
         /\ After = pkg
    /\ (MissingArguments \/ BadFlag \/ BadBuildDir \/ OverrideMissing \/ NoManifestAnywhere
           \/ built.threw) => pc # "done"
    /\ (MissingArguments \/ BadFlag) => pc \in {"start", "fatal"}
    /\ (BadBuildDir \/ OverrideMissing \/ NoManifestAnywhere) => pc \in {"start", "resolve", "fatal"}

\* C8 witness: a run that ended Done after filtering three groups, one of
\* them dropped, and synthesizing the others.
C8_Witness ==
    /\ pc = "done"
    /\ exitCode = 0
    /\ Len(SelectSeq(steps, LAMBDA x : x = "Filter")) > Len(SelectSeq(steps, LAMBDA x : x = "Synthesize"))
    /\ Len(SelectSeq(steps, LAMBDA x : x = "Synthesize")) >= 1

----------------------------------------------------------------------------
(* Manifest location                                                       *)

BuildDir == Normalize(Cwd, argv[1].path)

HasManifest(d) == Join(d, <<PackageJson>>) \in DOMAIN manifests

IsPrefix(a, b) == Len(a) <= Len(b) /\ SubSeq(b, 1, Len(a)) = a

\* the build directory and the directories above it, up to the working
\* directory when the build directory is inside it, else up to the root
SearchDirs ==
    {a \in {SubSeq(BuildDir, 1, n) : n \in 0..Len(BuildDir)} :
        IsPrefix(Cwd, BuildDir) => IsPrefix(Cwd, a)}

WithManifest == {a \in SearchDirs : HasManifest(a)}

Nearest == CHOOSE a \in WithManifest : \A b \in WithManifest : Len(b) <= Len(a)

Resolved == pc \notin {"start", "resolve"} /\ ~opts.usage /\ ~paths.fatal

ResolveFailed == pc = "fatal" /\ ~opts.usage /\ paths.fatal

OverrideGiven == opts.pkgPathArg # Undefined

OverridePath == Normalize(Cwd, opts.pkgPathArg)

\* C9: with an override path the manifest used is that path, whatever the
\* upward search would find, and the run is fatal if it does not exist;
\* without one it is the manifest of the nearest directory that has one, going
\* upward from the build directory (not above the working directory when the
\* build directory is inside it); if there is none, the manifest of the
\* working directory; if that does not exist either, the run is fatal.
C9_ManifestLocation ==
    /\ Resolved =>
         IF OverrideGiven THEN paths.pkgPath = OverridePath /\ existsSync(OverridePath)
         ELSE IF WithManifest # {} THEN paths.pkgPath = Join(Nearest, <<PackageJson>>)
         ELSE paths.pkgPath = CwdJson /\ HasManifest(Cwd)
    /\ (ResolveFailed /\ IsDirectory(BuildDir)) =>
         IF OverrideGiven THEN ~existsSync(OverridePath)
         ELSE WithManifest = {} /\ ~HasManifest(Cwd)
    /\ Resolved => (paths.distDir = BuildDir /\ paths.pkgDir = Dirname(paths.pkgPath))

\* C9 witness: without an override, two directories above the build directory
\* hold a manifest and the nearer one is used.
C9_Witness ==
    /\ Resolved
    /\ ~OverrideGiven
    /\ Cardinality(WithManifest) >= 2
    /\ paths.pkgPath = Join(Nearest, <<PackageJson>>)
    /\ Nearest # BuildDir

\* C9, the other cases reached: an override that wins over a nearer manifest,
\* the fallback to the working directory from a build directory outside it,
\* and the fatal end when no manifest is found.
C9_OverrideReached ==
    Resolved /\ OverrideGiven /\ WithManifest # {} /\ paths.pkgPath # Join(Nearest, <<PackageJson>>)

C9_FallbackReached ==
    Resolved /\ ~OverrideGiven /\ WithManifest = {} /\ ~IsPrefix(Cwd, BuildDir) /\ paths.pkgPath = CwdJson

C9_FatalReached ==
    ResolveFailed /\ IsDirectory(BuildDir) /\ ~OverrideGiven /\ HasManifest(<<>>)

----------------------------------------------------------------------------
(* Soft exclusion by content marker                                        *)

\* the groups that the content marker drops (name exclusion comes first)
DroppedByMarker == {b \in ScannedPaths : ~ExcludedByName(b) /\ ExcludedByMarker(b)}

\* console.warn named a file of the group
Warned(b) == \E f \in GroupOf(b) : f \in Range(built.warnings)

\* the run ended in main().catch because writeJson threw
WriteFailed == pc = "fatal" /\ steps # <<>> /\ Last(steps) = "Merge"

PersistedKeys == KeysOf(ObjGet(After, "exports").map)

\* What holds of the marker on every build directory: when it drops a group
\* a warning is emitted and the build goes on to the write, a run that ends
\* after a warning ends with exit code 0 and the manifest written once, or
\* fails for another cause (a file that cannot be read, a write that throws).
C11_MarkerNeverFatal ==
    /\ (Built /\ DroppedByMarker # {}) =>
         /\ ~built.threw
         /\ built.warnings # <<>>
         /\ \A b \in DroppedByMarker : DotSlash(b) \notin ExportKeys
    /\ (pc = "done" /\ DroppedByMarker # {}) =>
         /\ exitCode = 0
         /\ writes = 1
         /\ \A b \in DroppedByMarker : DotSlash(b) \notin PersistedKeys
    /\ (pc = "fatal" /\ built.warnings # <<>>) => (built.threw \/ WriteFailed)

\* C11: a file containing the content marker is never fatal; a run in which
\* groups are dropped by content marker warns about each dropped module,
\* persists the manifest with the other retained groups, and ends with exit
\* code 0.
C11_SoftExclusion ==
    /\ C11_MarkerNeverFatal
    /\ (Built /\ DroppedByMarker # {}) => \A b \in DroppedByMarker : Warned(b)
    /\ (pc = "done" /\ DroppedByMarker # {}) =>
         \A b \in RetainedPaths : DotSlash(b) \in PersistedKeys

\* C11 holds of every build directory that has no artifact with module path
\* "__proto__".
C11_SoftExclusionExceptProto == NoProtoArtifact => C11_SoftExclusion

\* The case of C11 is reached: a run that dropped a group by marker, warned,
\* kept another group and ended with exit code 0.
C11_ScenarioReached ==
    /\ pc = "done"
    /\ exitCode = 0
    /\ DroppedByMarker # {}
    /\ \A b \in DroppedByMarker : Warned(b)
    /\ RetainedPaths # {}
    /\ \A b \in RetainedPaths : DotSlash(b) \in PersistedKeys

----------------------------------------------------------------------------
(* Emitted references                                                      *)

JsOf(b) == CHOOSE f \in GroupOf(b) : EndsWithJs(f)

DtsOf(b) == CHOOSE f \in GroupOf(b) : EndsWithDts(f)

NoBackslash(p) == \A i \in 1..Len(p) : \A j \in 1..Len(p[i]) : p[i][j] # BackslashName

\* the build directory is the manifest directory or below it
Descendant == IsPrefix(paths.pkgDir, paths.distDir)

\* A reference to the artifact at the absolute path abs: "./", then ".."
\* segments if and only if the build directory is not a descendant of the
\* manifest directory, then names; "/" is its only separator; and resolved
\* from the manifest directory it is abs.
RefersTo(ref, abs) ==
    /\ Len(ref) >= 2
    /\ ref[1] = CurDir
    /\ \A i \in 2..Len(ref) : ref[i] # CurDir
    /\ \A i \in 3..Len(ref) : ref[i] = ParentDir => ref[i - 1] = ParentDir
    /\ (ref[2] = ParentDir) <=> ~Descendant
    /\ NoBackslash(ref)
    /\ Normalize(paths.pkgDir, ref) = abs

\* C12: for every retained group the export key is "./" + module path, and
\* each of import, require and types is "./" + the path of the group's
\* artifact relative to the manifest directory, with forward slashes only;
\* when the build directory is not a descendant of the manifest directory the
\* reference ascends with "../" after "./" and still designates the artifact.
C12_EmittedReferences ==
    Built =>
      \A b \in RetainedPaths :
        /\ ObjHas(built.exportsMap, DotSlash(b))
        /\ ("import" \in DOMAIN Descriptor(b)) <=> HasJs(b)
        /\ ("require" \in DOMAIN Descriptor(b)) <=> HasJs(b)
        /\ ("types" \in DOMAIN Descriptor(b)) <=> HasDts(b)
        /\ HasJs(b) =>
             /\ RefersTo(Descriptor(b)["import"], Join(paths.distDir, JsOf(b)))
             /\ RefersTo(Descriptor(b)["require"], Join(paths.distDir, JsOf(b)))
        /\ HasDts(b) => RefersTo(Descriptor(b)["types"], Join(paths.distDir, DtsOf(b)))

\* C12 holds wherever neither the manifest directory nor the path of a
\* scanned artifact has a "\" in a name.
C12_ReferencesExceptBackslash ==
    (/\ NoBackslash(paths.pkgDir)
     /\ \A f \in Scanned : NoBackslash(Join(paths.distDir, f))) => C12_EmittedReferences

\* The failing case of C12 is reached: the build directory pkg/di\st, whose
\* artifact foo.js is referred to as ./di/st/foo.js.
C12_BackslashReached ==
    /\ Built
    /\ paths.distDir = DistBack
    /\ paths.pkgDir = PkgHome
    /\ ObjHas(built.exportsMap, DotSlash(<< <<"foo">> >>))
    /\ Descriptor(<< <<"foo">> >>)["import"] = << CurDir, <<"di">>, <<"st">>, <<"foo", "js">> >>

\* The ascending case of C12 is reached: a build directory that is not below
\* the manifest directory, with a runtime and a declaration file referred to
\* through "../".
C12_AscendingReached ==
    /\ Built
    /\ ~Descendant
    /\ \E b \in RetainedPaths :
         /\ HasJs(b) /\ HasDts(b)
         /\ ObjHas(built.exportsMap, DotSlash(b))
         /\ Descriptor(b)["types"][2] = ParentDir
         /\ RefersTo(Descriptor(b)["import"], Join(paths.distDir, JsOf(b)))

----------------------------------------------------------------------------
(* The groups made by buildExportsMap                                      *)

\* grouped, as buildExportsMap holds it after the reduce
Grouped == GroupFiles(files, EmptyGrouped)

\* the keys its loop visits, and the files it reads for a key
GroupKeys == Range(ForInKeys(Grouped))

Members(k) == {GetProp(Grouped, k, "js"), GetProp(Grouped, k, "dts")} \ {Undefined}

AfterGrouping == built.trace # <<>>

\* C13: after grouping, every group holds at most one .js and at most one
\* .d.ts and at least one artifact, two artifacts are in the same group if and
\* only if their paths with the extension stripped are equal, and every
\* scanned artifact belongs to exactly one group.
C13_GroupInvariant ==
    AfterGrouping =>
      /\ \A k \in GroupKeys :
           /\ Members(k) # {}
           /\ Members(k) \subseteq Scanned
           /\ Cardinality({f \in Members(k) : EndsWithJs(f)}) <= 1
           /\ Cardinality({f \in Members(k) : EndsWithDts(f)}) <= 1
      /\ \A f \in Scanned : Cardinality({k \in GroupKeys : f \in Members(k)}) = 1
      /\ \A f1, f2 \in Scanned :
           (\E k \in GroupKeys : {f1, f2} \subseteq Members(k))
               <=> ModulePath(f1) = ModulePath(f2)

\* C13 holds of every build directory that has no artifact with module path
\* "__proto__".
C13_GroupInvariantExceptProto == NoProtoArtifact => C13_GroupInvariant

\* The case of C13 is reached: three files grouped into a group of two (a .js
\* with its .d.ts) and a group of one.
C13_ScenarioReached ==
    /\ AfterGrouping
    /\ Cardinality(Scanned) = 3
    /\ Cardinality(GroupKeys) = 2
    /\ \E k \in GroupKeys : Cardinality(Members(k)) = 2
    /\ C13_GroupInvariant

----------------------------------------------------------------------------
(* The upward search                                                       *)

\* resolvePaths has called findNearestPackageJson(buildPath, cwd)
Searched ==
    /\ pc \notin {"start", "resolve"}
    /\ ~opts.usage
    /\ IsDirectory(BuildDir)
    /\ ~OverrideGiven

Visits == findNearestVisits(BuildDir, Cwd)

Found == findNearestPackageJson(BuildDir, Cwd)

\* C14: the upward search terminates: it starts at the build directory, each
\* next directory is the parent of the last one (so no directory is visited
\* twice and there are at most as many iterations as the build directory has
\* ancestors, itself included), it returns the manifest of the first
\* directory that has one, and it stops without a result once it has tested
\* the working directory or the root; from a build directory inside the
\* working directory it tests no directory above the working directory.
C14_SearchTerminates ==
    Searched =>
      /\ Len(Visits) >= 1
      /\ Len(Visits) <= Len(BuildDir) + 1
      /\ Visits[1] = BuildDir
      /\ \A i \in 2..Len(Visits) :
           /\ Visits[i] = Dirname(Visits[i - 1])
           /\ Len(Visits[i]) < Len(Visits[i - 1])
      /\ \A i, j \in 1..Len(Visits) : i # j => Visits[i] # Visits[j]
      /\ \A i \in 1..(Len(Visits) - 1) :
           ~HasManifest(Visits[i]) /\ Visits[i] # Cwd /\ Visits[i] # <<>>
      /\ Found # Undefined =>
           HasManifest(Last(Visits)) /\ Found = Join(Last(Visits), <<PackageJson>>)
      /\ Found = Undefined =>
           ~HasManifest(Last(Visits)) /\ Last(Visits) \in {Cwd, <<>>}
      /\ IsPrefix(Cwd, BuildDir) => \A i \in 1..Len(Visits) : IsPrefix(Cwd, Visits[i])
      /\ ~paths.fatal => paths.pkgPath = (IF Found # Undefined THEN Found ELSE CwdJson)

\* C14 witness: from a build directory two levels below the working directory
\* the search tested three directories, found the manifest of the working
\* directory and left the manifest of the root above it untested.
C14_Witness ==
    /\ Searched
    /\ IsPrefix(Cwd, BuildDir)
    /\ Len(Visits) = 3
    /\ Found = CwdJson
    /\ HasManifest(<<>>)
    /\ paths.pkgPath = CwdJson

\* C14, the ends without a result reached: at the working directory with a
\* manifest at the root, and at the root from a build directory outside the
\* working directory.
C14_StoppedAtCwd ==
    Searched /\ Found = Undefined /\ Last(Visits) = Cwd /\ Len(Visits) = 3 /\ HasManifest(<<>>)

C14_StoppedAtRoot ==
    Searched /\ Found = Undefined /\ Last(Visits) = <<>> /\ Len(Visits) = 3

----------------------------------------------------------------------------
(* Order of the name exclusion and the content checks                      *)

\* position of the first read of f by checkReserved, 0 if it was not read
ReadAt(f) ==
    IF f \in Range(built.reads)
    THEN CHOOSE i \in 1..Len(built.reads) :
            built.reads[i] = f /\ \A j \in 1..(i - 1) : built.reads[j] # f
    ELSE 0

\* the warnings that name a file of the group
WarningsOf(b) == SelectSeq(built.warnings, LAMBDA f : f \in GroupOf(b))

\* C15: no file of a group excluded by name is read or warned about; in a
\* group not excluded by name the .d.ts is read only after the .js was read
\* and found without the marker; at most one warning is emitted per dropped
\* group.
C15_NameBeforeContent ==
    AfterGrouping =>
      \A b \in ScannedPaths :
        /\ ExcludedByName(b) =>
             \A f \in GroupOf(b) : f \notin Range(built.reads) /\ f \notin Range(built.warnings)
        /\ (~ExcludedByName(b) /\ HasJs(b) /\ HasDts(b) /\ ReadAt(DtsOf(b)) > 0) =>
             /\ ReadAt(JsOf(b)) > 0
             /\ ReadAt(JsOf(b)) < ReadAt(DtsOf(b))
             /\ ~HasMarker(JsOf(b))
        /\ (~ExcludedByName(b) /\ HasJs(b) /\ HasDts(b) /\ HasMarker(JsOf(b))) =>
             ReadAt(DtsOf(b)) = 0
        /\ Len(WarningsOf(b)) <= 1
        /\ Len(WarningsOf(b)) = 1 => DotSlash(b) \notin ExportKeys

\* C15 holds of every build directory that has no artifact with module path
\* "__proto__".
C15_NameBeforeContentExceptProto == NoProtoArtifact => C15_NameBeforeContent

\* The cases of C15 are reached: a group excluded by name whose file holds
\* the marker and was not read, and a group whose .js and .d.ts both hold the
\* marker, of which only the .js was read and warned about.
C15_ExcludedUnreadReached ==
    /\ Built
    /\ NoProtoArtifact
    /\ \E b \in ScannedPaths :
         /\ ExcludedByName(b)
         /\ \E f \in GroupOf(b) : HasMarker(f) /\ f \notin Range(built.reads)
    /\ built.reads # <<>>

C15_JsOnlyReadReached ==
    /\ Built
    /\ NoProtoArtifact
    /\ \E b \in ScannedPaths :
         /\ HasJs(b) /\ HasDts(b)
         /\ HasMarker(JsOf(b)) /\ HasMarker(DtsOf(b))
         /\ built.warnings = <<JsOf(b)>>
         /\ ReadAt(DtsOf(b)) = 0

\* The failing case of C15 is reached: "__proto__" in the exclusion list, and
\* the file __proto__.js read and warned about all the same.
C15_ExcludedReadReached ==
    /\ Built
    /\ Range(opts.excludeNames) = {<<"__proto__">>}
    /\ Scanned = {ProtoJs}
    /\ built.reads = <<ProtoJs>>
    /\ built.warnings = <<ProtoJs>>

====
